---- MODULE Spec2Model ----
(***************************************************************************)
(* Model of Dataset<T, size, dataT> (src/Dataset.hpp): a fixed-size array  *)
(* of integral values filled by genRandomData / genUniqueData, reached     *)
(* through the constructor and through genNewData.                         *)
(*                                                                         *)
(* One behaviour is the life of one Dataset object.  The template          *)
(* parameters T, size and dataT are chosen in Init and never change.  Each *)
(* call (constructor, genNewData) is one action; the values produced by    *)
(* the random engine are the action's nondeterministic inputs.             *)
(***************************************************************************)
EXTENDS Integers, FiniteSets, Sequences, TLC

(* ------------------------------ bounds --------------------------------- *)

\* Width in bits of the element type T.  The arithmetic of the model is the
\* arithmetic of a two's-complement type of this width; a narrow width brings
\* the sizes at which `size-1` no longer fits T (32769 for short) within
\* MaxLen.
TBits == 2

\* Largest template argument `size` explored.
MaxLen == 3

\* The bounds (min, max) of a call are drawn from a window of Span + 1
\* consecutive values of T.
Span == 1

\* Largest number of calls (the constructor, then genNewData) on one object.
MaxCalls == 2

(* --------------------------- element type T ---------------------------- *)

Types == {"signed", "unsigned"}

TMin(t) == IF t = "signed" THEN 0 - 2^(TBits - 1) ELSE 0
TMax(t) == IF t = "signed" THEN 2^(TBits - 1) - 1 ELSE 2^TBits - 1
TRange(t) == TMin(t)..TMax(t)

\* Conversion of a non-negative size_t value to T, as in the arguments
\* `size-1` and `amount-1` of std::uniform_int_distribution<T>: reduction
\* modulo 2^TBits into the range of T.
ToT(t, n) ==
    LET m == n % 2^TBits
    IN  IF m > TMax(t) THEN m - 2^TBits ELSE m

\* The dataset kinds.
DT == {"RANDOM", "SORTED", "REVERSE_SORTED", "NEARLY_SORTED", "FEW_UNIQUE"}

VARIABLES
    T,          \* template parameter: the element type
    size,       \* template parameter: the number of elements
    dataT,      \* template parameter: the kind of dataset
    dataset,    \* the internal array, indexed 0..size-1; empty while no object exists
    calls,      \* number of calls made so far (constructor included)
    op,         \* the last call: "none", "Dataset" (constructor) or "genNewData"
    argMin,     \* first argument of the last call
    argMax,     \* second argument of the last call
    err,        \* "none", or "invalid_argument" when the last call threw
    draws,      \* number of values the last call took from a distribution
    swaps,      \* number of std::swap calls the last call made
    poolOk,     \* every sample-pool subscript of the last call was in 0..amount-1
    swapOk      \* every random swap subscript of the last call was in 0..size-1

vars == <<T, size, dataT, dataset, calls, op, argMin, argMax, err, draws,
          swaps, poolOk, swapOk>>

\* The array before the constructor has run / when construction threw.
Empty == [i \in {} |-> 0]

(* ------------------------------ helpers -------------------------------- *)

\* (size_t) sqrt(size): the integer part of the square root.
Isqrt(n) == CHOOSE r \in 0..n : r * r <= n /\ (r + 1) * (r + 1) > n

\* (size_t) sqrt(sqrt(size)): the integer part of the fourth root.
Iroot4(n) == CHOOSE r \in 0..n : r * r * r * r <= n
                                 /\ (r + 1) * (r + 1) * (r + 1) * (r + 1) > n

\* The range check with the comparison turned round.
InvalidRangeFlipped(min, max) == min < max

\* The range check made by the constructor and by both generators.
InvalidRange(min, max) == max < min

\* `i < j` after both T values were converted to size_t (the parameters of
\* the comparison lambdas are size_t).  The conversion maps v >= 0 to v and
\* v < 0 to 2^64 + v, so every negative value lands above every non-negative
\* one and the order inside each sign class is kept; the comparison is
\* written on that order because 2^64 is beyond the integers of the checker.
SizeTLess(i, j) == IF (i < 0) = (j < 0) THEN i < j ELSE j < 0

\* The lambda handed to std::sort for SORTED and NEARLY_SORTED.
AscendingLess(i, j) == SizeTLess(i, j)

\* The lambda handed to std::sort for REVERSE_SORTED.
DescendingLess(i, j) == SizeTLess(j, i)

\* std::sort(dataset, dataset + length, <ascending lambda>): the arrangement
\* of the values of f in which no element is AscendingLess than its
\* predecessor.  The lambda is a strict weak order whose ties are equal
\* values, so the arrangement is unique: position k holds the value v with
\* (#elements less than v) <= k < (#elements not greater than v).
SortAscending(f) ==
    [k \in DOMAIN f |->
        CHOOSE v \in {f[i] : i \in DOMAIN f} :
            /\ Cardinality({i \in DOMAIN f : AscendingLess(f[i], v)}) <= k
            /\ k < Cardinality({i \in DOMAIN f : ~AscendingLess(v, f[i])})]

\* std::sort(dataset, dataset + length, <descending lambda>), likewise.
SortDescending(f) ==
    [k \in DOMAIN f |->
        CHOOSE v \in {f[i] : i \in DOMAIN f} :
            /\ Cardinality({i \in DOMAIN f : DescendingLess(f[i], v)}) <= k
            /\ k < Cardinality({i \in DOMAIN f : ~DescendingLess(v, f[i])})]

\* The values std::uniform_int_distribution<T> distribution(min, max) can
\* return.  Built with max < min the distribution is undefined and can return
\* any value of T (the range checks keep the code from getting there).
ValueDraws(min, max) == IF min <= max THEN min..max ELSE TRange(T)

\* The values an object std::uniform_int_distribution<T>(0, hi) can return,
\* hi being a size_t expression converted to T.  When the converted bound is
\* negative the distribution is built with b < a, which is undefined: the
\* call can then return any value of T.
IndexDraws(hi) ==
    LET b == ToT(T, hi)
    IN  IF b >= 0 THEN 0..b ELSE TRange(T)

\* The values a read of dataset[r] can give while `data` holds the slots
\* written so far: the slot's value, or, for a subscript outside the written
\* slots (outside the array, or a slot not yet assigned), any value of T.
ReadAt(data, r) == IF r \in DOMAIN data THEN {data[r]} ELSE TRange(T)

\* std::swap(dataset[a], dataset[b]) on a fully written array.  A subscript
\* outside 0..size-1 exchanges the slot with memory outside the array: the
\* slot inside receives any value of T.
SwapOutcomes(data, a, b) ==
    LET inA == a \in 0..(size - 1)
        inB == b \in 0..(size - 1)
    IN  IF inA /\ inB THEN {[data EXCEPT ![a] = data[b], ![b] = data[a]]}
        ELSE IF inA THEN {[data EXCEPT ![a] = g] : g \in TRange(T)}
        ELSE IF inB THEN {[data EXCEPT ![b] = g] : g \in TRange(T)}
        ELSE {data}

\* What one call leaves behind.
Outcome(e, d, nd, ns, pk, sk) ==
    [err |-> e, data |-> d, draws |-> nd, swaps |-> ns, poolOk |-> pk, swapOk |-> sk]

\* throw std::invalid_argument(...) before anything was drawn or written.
Throw(d) == Outcome("invalid_argument", d, 0, 0, TRUE, TRUE)

(* --------------------------- genRandomData ----------------------------- *)

\* The number of swaps taken from size - 1 instead of size.
NearlyAmountOffByOne == Iroot4(size - 1)

\* Number of swaps of the NEARLY_SORTED perturbation.
NearlyAmount == Iroot4(size)

\* One iteration of the perturbation loop: two subscripts drawn from
\* randomIndex, and the swap.
PerturbStep(W) ==
    UNION { { [data |-> d2, swapOk |-> w.swapOk /\ a \in 0..(size - 1) /\ b \in 0..(size - 1)]
              : d2 \in SwapOutcomes(w.data, a, b) }
            : <<w, a, b>> \in W \X IndexDraws(size - 1) \X IndexDraws(size - 1) }

RECURSIVE Perturb(_, _)
Perturb(W, k) == IF k = 0 THEN W ELSE Perturb(PerturbStep(W), k - 1)

\* genRandomData(min, max) on an object whose array is d: the set of
\* possible outcomes.
genRandomData(d, min, max) ==
    IF InvalidRange(min, max) THEN {Throw(d)}
    ELSE
      LET fills == [0..(size - 1) -> ValueDraws(min, max)]
          arranged(f) ==
              IF dataT \in {"SORTED", "NEARLY_SORTED"} THEN SortAscending(f)
              ELSE IF dataT = "REVERSE_SORTED" THEN SortDescending(f)
              ELSE f
      IN  IF dataT = "NEARLY_SORTED"
          THEN { Outcome("none", w.data, size + 2 * NearlyAmount, NearlyAmount, TRUE, w.swapOk)
                 : w \in Perturb({[data |-> arranged(f), swapOk |-> TRUE] : f \in fills},
                                 NearlyAmount) }
          ELSE { Outcome("none", arranged(f), size, 0, TRUE, TRUE) : f \in fills }

(* --------------------------- genUniqueData ----------------------------- *)

\* Number of values in the sample list of FEW_UNIQUE.
UniqueAmount == Isqrt(size)

\* Second loop, slot i: dataset[i] = dataset[randomSampleIndex(RNG)].
SpreadStep(W, i) ==
    UNION { { [data |-> [k \in 0..i |-> IF k = i THEN v ELSE w.data[k]],
               poolOk |-> w.poolOk /\ r \in 0..(UniqueAmount - 1)]
              : v \in ReadAt(w.data, r) }
            : <<w, r>> \in W \X IndexDraws(UniqueAmount - 1) }

RECURSIVE Spread(_, _)
Spread(W, i) == IF i >= size THEN W ELSE Spread(SpreadStep(W, i), i + 1)

\* Third loop, slot j: std::swap(dataset[j], dataset[randomIndex(RNG)]).
ScatterStep(W, j) ==
    UNION { { [data |-> d2, poolOk |-> w.poolOk, swapOk |-> w.swapOk /\ r \in 0..(size - 1)]
              : d2 \in SwapOutcomes(w.data, j, r) }
            : <<w, r>> \in W \X IndexDraws(size - 1) }

RECURSIVE Scatter(_, _)
Scatter(W, j) == IF j >= UniqueAmount THEN W ELSE Scatter(ScatterStep(W, j), j + 1)

\* genUniqueData(min, max) on an object whose array is d: the set of
\* possible outcomes.
genUniqueData(d, min, max) ==
    IF InvalidRange(min, max) THEN {Throw(d)}
    ELSE
      LET pools  == { [data |-> p, poolOk |-> TRUE]
                      : p \in [0..(UniqueAmount - 1) -> ValueDraws(min, max)] }
          spread == { [data |-> w.data, poolOk |-> w.poolOk, swapOk |-> TRUE]
                      : w \in Spread(pools, UniqueAmount) }
      IN  { Outcome("none", w.data, size + UniqueAmount, UniqueAmount, w.poolOk, w.swapOk)
            : w \in Scatter(spread, 0) }

(* ------------------------ public entry points -------------------------- *)

\* genNewData(min, max): forwards to the generator of the kind.
genNewData(d, min, max) ==
    IF dataT = "FEW_UNIQUE" THEN genUniqueData(d, max, min)
    ELSE genRandomData(d, max, min)

\* The constructor Dataset(min, max).  No object exists yet, so the array
\* handed on is Empty, and it stays Empty when the constructor throws.
Dataset(min, max) ==
    IF InvalidRange(min, max) THEN {Throw(Empty)}
    ELSE genNewData(Empty, max, min)

(* ------------------------------ actions -------------------------------- *)

\* The arguments a caller passes: a window of values of T around zero.
Bounds(t) == {v \in TRange(t) : (IF t = "signed" THEN 0 - 1 ELSE 0) <= v
                                 /\ v <= (IF t = "signed" THEN 0 - 1 ELSE 0) + Span}

Init ==
    /\ T \in Types
    /\ size \in 1..MaxLen
    /\ dataT \in DT
    /\ dataset = Empty
    /\ calls = 0
    /\ op = "none"
    /\ argMin = 0
    /\ argMax = 0
    /\ err = "none"
    /\ draws = 0
    /\ swaps = 0
    /\ poolOk = TRUE
    /\ swapOk = TRUE

Record(name, min, max, o) ==
    /\ dataset' = o.data
    /\ calls' = calls + 1
    /\ op' = name
    /\ argMin' = min
    /\ argMax' = max
    /\ err' = o.err
    /\ draws' = o.draws
    /\ swaps' = o.swaps
    /\ poolOk' = o.poolOk
    /\ swapOk' = o.swapOk
    /\ UNCHANGED <<T, size, dataT>>

\* Dataset<T, size, dataT> object(min, max);
Construct ==
    /\ calls = 0
    /\ \E min \in Bounds(T), max \in Bounds(T) :
         \E o \in Dataset(min, max) : Record("Dataset", min, max, o)

\* object.genNewData(min, max); on an object that was constructed.
Regenerate ==
    /\ DOMAIN dataset # {}
    /\ calls < MaxCalls
    /\ \E min \in Bounds(T), max \in Bounds(T) :
         \E o \in genNewData(dataset, min, max) : Record("genNewData", min, max, o)

Next == Construct \/ Regenerate

Spec == Init /\ [][Next]_vars

(* ----------------------------- properties ------------------------------ *)

\* An object exists: the constructor returned without throwing.
Constructed == DOMAIN dataset # {}

\* The last call returned without throwing.
Succeeded == calls > 0 /\ err = "none"

\* Every slot holds a value between the arguments of the last call.
InArgRange == \A i \in 0..(size - 1) : argMin <= dataset[i] /\ dataset[i] <= argMax

\* The number of distinct values in the array.
Distinct == Cardinality({dataset[i] : i \in DOMAIN dataset})

\* The ascending arrangement of the array, by the values of T themselves:
\* slot k holds the value v with (#slots below v) <= k < (#slots up to v).
AscendingByValue ==
    [k \in DOMAIN dataset |->
        CHOOSE v \in {dataset[i] : i \in DOMAIN dataset} :
            /\ Cardinality({i \in DOMAIN dataset : dataset[i] < v}) <= k
            /\ k < Cardinality({i \in DOMAIN dataset : dataset[i] <= v})]

\* The number of slots in which the array differs from its own ascending
\* arrangement.
Displaced ==
    Cardinality({i \in DOMAIN dataset : dataset[i] # AscendingByValue[i]})

\* C1: for every kind, every size >= 1 and every bounds with max >= min,
\* after the constructor Dataset(min, max) returns, every slot holds a value
\* v with min <= v <= max.
C1_ConstructInRange ==
    (op = "Dataset" /\ argMin <= argMax) => (Succeeded /\ Constructed /\ InArgRange)

\* C2: genNewData(min, max) with max >= min on a constructed object returns
\* without throwing and leaves every slot in [min, max].
C2_RegenerateValid ==
    (op = "genNewData" /\ argMin <= argMax) => (Succeeded /\ InArgRange)

\* C3: genNewData(min, max) with max < min on a constructed object throws
\* std::invalid_argument and leaves every slot as it was before the call.
C3_RegenerateInvalid ==
    [][(Constructed /\ calls' = calls + 1 /\ argMax' < argMin')
          => (err' = "invalid_argument" /\ dataset' = dataset)]_vars

\* C4: the constructor Dataset(min, max) with max < min throws
\* std::invalid_argument for every kind, before any slot is written and
\* before any random value is drawn; no object results.
C4_ConstructInvalid ==
    (op = "Dataset" /\ argMax < argMin)
        => (err = "invalid_argument" /\ ~Constructed /\ draws = 0 /\ swaps = 0)

\* A construction with max < min was attempted and threw.
C4_Witness ==
    op = "Dataset" /\ argMax < argMin /\ err = "invalid_argument" /\ ~Constructed

\* C5: for SORTED, every element type, every size and every bounds (negative
\* ones included), after a successful generation dataset[i] <= dataset[i+1]
\* for all adjacent slots, compared as values of T.
C5_SortedAscending ==
    (dataT = "SORTED" /\ Constructed)
        => \A i \in 0..(size - 2) : dataset[i] <= dataset[i + 1]

\* C6: for REVERSE_SORTED, every element type, every size and every bounds
\* (negative ones included), after a successful generation
\* dataset[i] >= dataset[i+1] for all adjacent slots, compared as values of T.
C6_ReverseSortedDescending ==
    (dataT = "REVERSE_SORTED" /\ Constructed)
        => \A i \in 0..(size - 2) : dataset[i] >= dataset[i + 1]

\* C7: for FEW_UNIQUE, every size and every bounds, after a successful
\* generation the array holds at most floor(sqrt(size)) distinct values
\* (at most 1 when size < 4).
C7_FewUniqueDistinct ==
    (dataT = "FEW_UNIQUE" /\ Constructed)
        => (Distinct * Distinct <= size /\ (size < 4 => Distinct <= 1))

\* C8: for NEARLY_SORTED, every size and every bounds, after a successful
\* generation the array differs from the ascending arrangement of its own
\* values in at most 2 * floor(sqrt(sqrt(size))) slots.
C8_NearlySortedDisplaced ==
    (dataT = "NEARLY_SORTED" /\ Constructed) => Displaced <= 2 * Iroot4(size)

C10_SubscriptsInBounds == poolOk /\ swapOk

(* ------------------------- supporting facts ---------------------------- *)

\* Apart from the out-of-range subscripts of C10, a successful call leaves
\* every slot between the bounds the generator received.
InRangeWhenSubscriptsInBounds ==
    (Succeeded /\ poolOk /\ swapOk)
        => \A i \in 0..(size - 1) :
              /\ (IF argMin <= argMax THEN argMin ELSE argMax) <= dataset[i]
              /\ dataset[i] <= (IF argMin <= argMax THEN argMax ELSE argMin)

\* Apart from the out-of-range subscripts of C10, FEW_UNIQUE leaves at most
\* floor(sqrt(size)) distinct values.
FewUniqueWhenSubscriptsInBounds ==
    (dataT = "FEW_UNIQUE" /\ Succeeded /\ poolOk /\ swapOk)
        => Distinct * Distinct <= size

\* The sorted kinds are ordered by the comparison the code uses.
SortedBySizeT ==
    (dataT = "SORTED" /\ Constructed)
        => \A i \in 0..(size - 2) : ~SizeTLess(dataset[i + 1], dataset[i])

====
